---- MODULE Spec2Model ----
(***************************************************************************)
(* Model of adanet/core/testing_utils.py.                                  *)
(*                                                                         *)
(* Two parts:                                                              *)
(*  - the AdanetTestCase life cycle (setUp / test body / tearDown) over a  *)
(*    small filesystem of per-test subdirectories   (specification Spec);  *)
(*  - the dummy factories dummy_tensor, dummy_ensemble_spec,               *)
(*    _dummy_export_outputs and dummy_estimator_spec, as pure operators    *)
(*    applied to inputs drawn from bounded sets (specification SpecDummy). *)
(***************************************************************************)
EXTENDS Integers, Sequences, FiniteSets, TLC

\* ------------------------------------------------------------------ bounds
\* number of distinct test ids (one subdirectory each)
NumTests == 2
\* number of distinct entry names a test may create in its subdirectory
MaxFiles == 2

\* random_seed ranges over 0..MaxSeed
MaxSeed == 2
\* num_subnetworks ranges over -MaxSubnetworks..MaxSubnetworks
MaxSubnetworks == 2
\* float arguments (loss, adanet_loss, bias) range over 0..MaxFloat
MaxFloat == 1

Tests == 1..NumTests
Files == 1..MaxFiles

VARIABLES
    fs,                 \* test id -> state of test_tmpdir/<id> on disk
    phase,              \* "idle" | "body" | "torn" : where the runner stands
    testId,             \* self.id() of the current (or last) test instance
    test_subdirectory,  \* self.test_subdirectory: 0 = attribute not set
    lastOp,             \* history: the last operation that ran
    lastResult,         \* history: "ok" or the step of lastOp that raised
    pre,                \* history: the subdirectory as lastOp found it
    unclean,            \* history: some cycle so far was cut short or met
                        \*          an entry that could not be removed
    args,               \* inputs of the dummy factories
    call,               \* which factory has been applied ("none" at first)
    result              \* what it returned

fsVars == <<fs, phase, testId, test_subdirectory, lastOp, lastResult, pre, unclean>>
dummyVars == <<args, call, result>>
vars == <<fs, phase, testId, test_subdirectory, lastOp, lastResult, pre, unclean,
          args, call, result>>

\* ------------------------------------------------------------- filesystem
\* A path is absent, or a directory holding entries; the entries in
\* `locked` are those whose removal fails (read-only parent, open handle).
Absent == [exists |-> FALSE, entries |-> {}, locked |-> {}]
EmptyDir == [exists |-> TRUE, entries |-> {}, locked |-> {}]

\* rmtree as if ignore_errors were not passed: a missing path, or an entry
\* that cannot be removed, raises.
rmtree_strict(d, ignore_errors) ==
    IF ~d.exists
      THEN [dir |-> d, raised |-> TRUE]
      ELSE IF d.locked = {}
        THEN [dir |-> Absent, raised |-> FALSE]
        ELSE [dir |-> [exists |-> TRUE, entries |-> d.locked, locked |-> d.locked],
              raised |-> TRUE]

\* rmtree that empties the directory but leaves the directory itself.
rmtree_contents_only(d, ignore_errors) ==
    IF ~d.exists
      THEN [dir |-> d, raised |-> ~ignore_errors]
      ELSE [dir |-> [exists |-> TRUE, entries |-> d.locked, locked |-> d.locked],
            raised |-> (d.locked # {} /\ ~ignore_errors)]

\* shutil.rmtree(path, ignore_errors): every removable entry goes; an error
\* (missing path, entry that cannot be removed) is raised only when
\* ignore_errors is false.  The directory itself goes only when emptied.
rmtree(d, ignore_errors) ==
    IF ~d.exists
      THEN [dir |-> d, raised |-> ~ignore_errors]
      ELSE IF d.locked = {}
        THEN [dir |-> Absent, raised |-> FALSE]
        ELSE [dir |-> [exists |-> TRUE, entries |-> d.locked, locked |-> d.locked],
              raised |-> ~ignore_errors]

\* makedirs as if called with exist_ok=True: an existing directory is kept
\* as it is and nothing is raised.
makedirs_exist_ok(d, envOk) ==
    IF d.exists
      THEN [dir |-> d, raised |-> FALSE]
      ELSE IF ~envOk
        THEN [dir |-> d, raised |-> TRUE]
        ELSE [dir |-> EmptyDir, raised |-> FALSE]

\* makedirs whose failure comes after the directory has been created.
makedirs_late_failure(d, envOk) ==
    IF d.exists
      THEN [dir |-> d, raised |-> TRUE]
      ELSE [dir |-> EmptyDir, raised |-> ~envOk]

\* os.makedirs(path): raises when the path already exists (no exist_ok) or
\* when the environment refuses (envOk false); otherwise a new empty dir.
makedirs(d, envOk) ==
    IF d.exists
      THEN [dir |-> d, raised |-> TRUE]
      ELSE IF ~envOk
        THEN [dir |-> d, raised |-> TRUE]
        ELSE [dir |-> EmptyDir, raised |-> FALSE]

\* --------------------------------------------------------- dummy values
\* Python's None, a Python float, and the tensors the module builds.
None == [op |-> "None"]
Float(v) == [op |-> "float", value |-> v]
\* a Python string
Str(s) == [op |-> "str", value |-> s]
\* a Python dict, as its set of <<key, value>> items
Dict(items) == [op |-> "dict", items |-> items]
Keys(d) == {p[1] : p \in d.items}
Get(d, k) == (CHOOSE p \in d.items : p[1] = k)[2]
\* tf.constant(v)
Const(v) == [op |-> "Const", value |-> v]

\* tf.convert_to_tensor(x): a Python number becomes a constant tensor of
\* that value; a tensor is returned as it is.
convert_to_tensor(x) ==
    IF x.op = "float" THEN Const(x.value) ELSE x

\* dummy_tensor(shape, random_seed): a non-trainable variable initialised
\* from random_normal(shape, seed), read back.
dummy_tensor(shape, random_seed) ==
    [op |-> "random_normal", shape |-> shape, seed |-> random_seed]

\* class ExportOutputKeys
CLASSIFICATION_CLASSES == Str("classification_classes")
CLASSIFICATION_SCORES == Str("classification_scores")
REGRESSION == Str("regression")
PREDICTION == Str("prediction")
INVALID == Str("invalid")
ExportOutputKeys ==
    {CLASSIFICATION_CLASSES, CLASSIFICATION_SCORES, REGRESSION, PREDICTION, INVALID}

\* tf.estimator.export.*Output constructors
ClassificationOutput(scores, classes) ==
    [type |-> "ClassificationOutput", scores |-> scores, classes |-> classes]
RegressionOutput(value) ==
    [type |-> "RegressionOutput", value |-> value]
PredictOutput(outputs) ==
    [type |-> "PredictOutput", outputs |-> outputs]

\* tf.as_string(x)
as_string(x) == [op |-> "as_string", x |-> x]

\* _dummy_export_outputs with a final `else` in place of the test for INVALID.
_dummy_export_outputs_else(export_output_key, logits, predictions) ==
    IF export_output_key = CLASSIFICATION_CLASSES
      THEN Dict({<<export_output_key, ClassificationOutput(None, as_string(logits))>>})
    ELSE IF export_output_key = CLASSIFICATION_SCORES
      THEN Dict({<<export_output_key, ClassificationOutput(logits, None)>>})
    ELSE IF export_output_key = REGRESSION
      THEN Dict({<<export_output_key, RegressionOutput(logits)>>})
    ELSE IF export_output_key = PREDICTION
      THEN Dict({<<export_output_key, PredictOutput(predictions)>>})
    ELSE Dict({<<export_output_key, predictions>>})

\* _dummy_export_outputs whose regression output takes predictions.
_dummy_export_outputs_regression_predictions(export_output_key, logits, predictions) ==
    IF export_output_key = CLASSIFICATION_CLASSES
      THEN Dict({<<export_output_key, ClassificationOutput(None, as_string(logits))>>})
    ELSE IF export_output_key = CLASSIFICATION_SCORES
      THEN Dict({<<export_output_key, ClassificationOutput(logits, None)>>})
    ELSE IF export_output_key = REGRESSION
      THEN Dict({<<export_output_key, RegressionOutput(predictions)>>})
    ELSE IF export_output_key = PREDICTION
      THEN Dict({<<export_output_key, PredictOutput(predictions)>>})
    ELSE IF export_output_key = INVALID
      THEN Dict({<<export_output_key, predictions>>})
    ELSE None

\* _dummy_export_outputs(export_output_key, logits, predictions)
_dummy_export_outputs(export_output_key, logits, predictions) ==
    IF export_output_key = CLASSIFICATION_CLASSES
      THEN Dict({<<export_output_key, ClassificationOutput(None, as_string(logits))>>})
    ELSE IF export_output_key = CLASSIFICATION_SCORES
      THEN Dict({<<export_output_key, ClassificationOutput(logits, None)>>})
    ELSE IF export_output_key = REGRESSION
      THEN Dict({<<export_output_key, RegressionOutput(logits)>>})
    ELSE IF export_output_key = PREDICTION
      THEN Dict({<<export_output_key, PredictOutput(predictions)>>})
    ELSE IF export_output_key = INVALID
      THEN Dict({<<export_output_key, predictions>>})
    ELSE None

\* list * n that forgets the count.
ListRepeat_once(list, n) == list

\* Python's  list * n : n copies of the list one after the other, and the
\* empty list for n <= 0.
RECURSIVE ListRepeat(_, _)
ListRepeat(list, n) ==
    IF n <= 0 THEN << >> ELSE list \o ListRepeat(list, n - 1)

\* the default taken whenever loss is falsy (`if not loss`), 0.0 included
default_loss_falsy(loss, random_seed) ==
    IF loss = None THEN dummy_tensor(<< >>, random_seed)
    ELSE IF loss.op = "float" /\ loss.value = 0 THEN dummy_tensor(<< >>, random_seed)
    ELSE loss

\* dummy_ensemble_spec, lines 85-86
default_loss(loss, random_seed) ==
    IF loss = None THEN dummy_tensor(<< >>, random_seed) ELSE loss

\* dummy_ensemble_spec, lines 88-91
default_adanet_loss(adanet_loss, random_seed) ==
    IF adanet_loss = None
      THEN dummy_tensor(<< >>, random_seed * 2)
      ELSE convert_to_tensor(adanet_loss)

\* tf.cast(tf.abs(x), dtype=tf.int64)
cast_abs_int64(x) == [op |-> "cast", dtype |-> "int64", x |-> [op |-> "abs", x |-> x]]

\* predictions whose dictionary holds the classes only.
make_predictions_classes_only(logits, dict_predictions) ==
    IF dict_predictions
      THEN Dict({<<Str("classes"), cast_abs_int64(logits)>>})
      ELSE logits

\* dummy_ensemble_spec, lines 94-100
make_predictions(logits, dict_predictions) ==
    IF dict_predictions
      THEN Dict({<<Str("logits"), logits>>,
                 <<Str("classes"), cast_abs_int64(logits)>>})
      ELSE logits

\* dummy_ensemble_spec, lines 101-112: the one-element list
make_weighted_subnetworks(name, random_seed) ==
    << [name |-> name,
        iteration_number |-> 1,
        logits |-> dummy_tensor(<<2, 1>>, random_seed * 4),
        weight |-> dummy_tensor(<<2, 1>>, random_seed * 4),
        subnetwork |-> [last_layer |-> dummy_tensor(<<1, 2>>, random_seed * 4),
                        logits |-> dummy_tensor(<<2, 1>>, random_seed * 4),
                        complexity |-> 1,
                        persisted_tensors |-> {}]] >>

\* dummy_ensemble_spec, with all eleven arguments in the order of its signature
dummy_ensemble_spec(name, random_seed, num_subnetworks, bias, loss, adanet_loss, eval_metrics, dict_predictions, export_output_key, subnetwork_builders, train_op) ==
    LET logits == dummy_tensor(<< >>, random_seed * 3)
        predictions == make_predictions(logits, dict_predictions)
        weighted_subnetworks == make_weighted_subnetworks(name, random_seed)
        export_outputs == _dummy_export_outputs(export_output_key, logits, predictions)
    IN  [name |-> name,
         ensemble |-> [weighted_subnetworks |->
                           ListRepeat(weighted_subnetworks, num_subnetworks),
                       bias |-> Const(bias),
                       logits |-> logits],
         architecture |-> "_Architecture()",
         subnetwork_builders |-> subnetwork_builders,
         predictions |-> predictions,
         loss |-> default_loss(loss, random_seed),
         adanet_loss |-> default_adanet_loss(adanet_loss, random_seed),
         train_op |-> train_op,
         eval_metrics |-> eval_metrics,
         export_outputs |-> export_outputs]

dummy_estimator_spec(loss, random_seed, eval_metric_ops) ==
    LET loss1 == IF loss = None THEN dummy_tensor(<< >>, random_seed) ELSE loss
        predictions == dummy_tensor(<< >>, random_seed * 2)
    IN  [mode |-> "train",
         predictions |-> predictions,
         loss |-> loss1,
         train_op |-> [op |-> "no_op"],
         eval_metric_ops |-> eval_metric_ops]

\* ---------------------------------------------------------- dummy inputs
Names == {"ensemble_a", "ensemble_b"}
Seeds == 0..MaxSeed
SubnetworkCounts == (0 - MaxSubnetworks)..MaxSubnetworks
Floats == 0..MaxFloat
\* a loss argument: absent, a Python float, or an already built tensor
LossValues == {None} \cup {Float(v) : v \in Floats} \cup {Const(MaxFloat)}
\* an export_output_key argument: absent, one of the constants, or another string
KeyValues == ExportOutputKeys \cup {None, Str("serving_default")}
\* pass-through arguments (train_op, eval_metrics, ...): absent or given
TrainOps == {None, [op |-> "no_op"]}
EvalMetrics == {None, [op |-> "metric_fn"]}
NoArgs == [fn |-> "none"]
NoResult == [op |-> "none"]

Init ==
    /\ fs = [t \in Tests |-> Absent]
    /\ phase = "idle"
    /\ testId = 1
    /\ test_subdirectory = 0
    /\ lastOp = "none"
    /\ lastResult = "ok"
    /\ pre = Absent
    /\ unclean = FALSE
    /\ args = NoArgs
    /\ call = "none"
    /\ result = NoResult

\* AdanetTestCase.setUp for the test with id t.  superOk: whether the
\* superclass setUp returns; mkOk: whether the environment lets makedirs
\* create the directory.  The runner calls tearDown only after a setUp that
\* returned, so a setUp that raised ends the cycle.
SetUp(t, superOk, mkOk) ==
    /\ phase = "idle"
    /\ testId' = t
    /\ lastOp' = "setUp"
    /\ pre' = fs[t]
    /\ IF ~superOk
         THEN /\ lastResult' = "super_raised"
              /\ test_subdirectory' = 0      \* fresh instance, line 232 not reached
              /\ fs' = fs
              /\ phase' = "idle"
              /\ unclean' = TRUE
         ELSE LET r == rmtree(fs[t], TRUE)
                  m == makedirs(r.dir, mkOk)
              IN  /\ test_subdirectory' = t
                  /\ fs' = [fs EXCEPT ![t] = IF r.raised THEN r.dir ELSE m.dir]
                  /\ lastResult' = IF r.raised THEN "rmtree_raised"
                                   ELSE IF m.raised THEN "makedirs_raised"
                                   ELSE "ok"
                  /\ phase' = IF r.raised \/ m.raised THEN "idle" ELSE "body"
                  /\ unclean' = (unclean \/ r.raised \/ m.raised)
    /\ UNCHANGED dummyVars

\* The body of a test (a subclass's test method) creates an entry in its
\* subdirectory; lk: the entry is one that a later rmtree cannot remove.
BodyCreate(f, lk) ==
    /\ phase = "body"
    /\ fs[testId].exists
    /\ f \notin fs[testId].entries
    /\ fs' = [fs EXCEPT ![testId] =
                 [exists |-> TRUE,
                  entries |-> @.entries \cup {f},
                  locked |-> IF lk THEN @.locked \cup {f} ELSE @.locked]]
    /\ lastOp' = "body"
    /\ lastResult' = "ok"
    /\ pre' = Absent
    /\ UNCHANGED <<phase, testId, test_subdirectory, unclean>>
    /\ UNCHANGED dummyVars

\* The body of a test deletes its own subdirectory, content and all.
BodyRemoveDir ==
    /\ phase = "body"
    /\ fs[testId].exists
    /\ fs' = [fs EXCEPT ![testId] = Absent]
    /\ lastOp' = "body"
    /\ lastResult' = "ok"
    /\ pre' = Absent
    /\ UNCHANGED <<phase, testId, test_subdirectory, unclean>>
    /\ UNCHANGED dummyVars

\* AdanetTestCase.tearDown, called by the runner after the body, or called
\* once more on the same instance.  superOk: whether the superclass
\* tearDown returns.
TearDown(superOk) ==
    /\ phase \in {"body", "torn"}
    /\ test_subdirectory # 0
    /\ lastOp' = IF phase = "body" THEN "tearDown" ELSE "tearDown_again"
    /\ pre' = fs[test_subdirectory]
    /\ phase' = "torn"
    /\ IF ~superOk
         THEN /\ lastResult' = "super_raised"
              /\ fs' = fs
              /\ unclean' = TRUE
         ELSE LET r == rmtree(fs[test_subdirectory], TRUE)
              IN  /\ fs' = [fs EXCEPT ![test_subdirectory] = r.dir]
                  /\ lastResult' = IF r.raised THEN "rmtree_raised" ELSE "ok"
                  /\ unclean' = (unclean \/ r.raised \/ r.dir.exists)
    /\ UNCHANGED <<testId, test_subdirectory>>
    /\ UNCHANGED dummyVars

\* The runner is done with the instance and moves on to the next test; the
\* history of the finished cycle is dropped.
Finish ==
    /\ phase = "torn"
    /\ phase' = "idle"
    /\ lastOp' = "finish"
    /\ lastResult' = "ok"
    /\ pre' = Absent
    /\ UNCHANGED <<fs, testId, test_subdirectory, unclean>>
    /\ UNCHANGED dummyVars

\* The test process is killed during the body: tearDown never runs.
Abort ==
    /\ phase = "body"
    /\ phase' = "idle"
    /\ lastOp' = "abort"
    /\ lastResult' = "ok"
    /\ pre' = Absent
    /\ unclean' = TRUE
    /\ UNCHANGED <<fs, testId, test_subdirectory>>
    /\ UNCHANGED dummyVars

\* ------------------------------------------------- applying the factories
\* Nothing has been called yet; the filesystem part stays as constructed.
InitDummy == Init

\* One call of dummy_ensemble_spec; eval_metrics and subnetwork_builders are
\* left at their default None, the other arguments are drawn.
CallEnsembleSpec ==
    /\ call = "none"
    /\ \E name \in Names, random_seed \in Seeds, num_subnetworks \in SubnetworkCounts,
          bias \in Floats, loss \in LossValues, adanet_loss \in LossValues,
          dict_predictions \in BOOLEAN, export_output_key \in KeyValues,
          train_op \in TrainOps :
         /\ args' = [name |-> name, random_seed |-> random_seed,
                     num_subnetworks |-> num_subnetworks, bias |-> bias,
                     loss |-> loss, adanet_loss |-> adanet_loss,
                     eval_metrics |-> None, dict_predictions |-> dict_predictions,
                     export_output_key |-> export_output_key,
                     subnetwork_builders |-> None, train_op |-> train_op]
         /\ result' = dummy_ensemble_spec(name, random_seed, num_subnetworks, bias,
                                          loss, adanet_loss, None, dict_predictions,
                                          export_output_key, None, train_op)
    /\ call' = "dummy_ensemble_spec"
    /\ UNCHANGED fsVars

\* One call of dummy_estimator_spec.
CallEstimatorSpec ==
    /\ call = "none"
    /\ \E loss \in LossValues, random_seed \in Seeds, eval_metric_ops \in EvalMetrics :
         /\ args' = [loss |-> loss, random_seed |-> random_seed,
                     eval_metric_ops |-> eval_metric_ops]
         /\ result' = dummy_estimator_spec(loss, random_seed, eval_metric_ops)
    /\ call' = "dummy_estimator_spec"
    /\ UNCHANGED fsVars

\* One direct call of _dummy_export_outputs, with logits and predictions
\* that need not be related.
CallExportOutputs ==
    /\ call = "none"
    /\ \E export_output_key \in KeyValues, s1 \in Seeds, s2 \in Seeds,
          dict_predictions \in BOOLEAN :
         LET logits == dummy_tensor(<< >>, s1)
             predictions == make_predictions(dummy_tensor(<< >>, s2), dict_predictions)
         IN  /\ args' = [export_output_key |-> export_output_key, logits |-> logits,
                         predictions |-> predictions]
             /\ result' = _dummy_export_outputs(export_output_key, logits, predictions)
    /\ call' = "_dummy_export_outputs"
    /\ UNCHANGED fsVars

NextDummy ==
    \/ CallEnsembleSpec
    \/ CallEstimatorSpec
    \/ CallExportOutputs

SpecDummy == InitDummy /\ [][NextDummy]_vars

Next ==
    \/ \E t \in Tests, superOk \in BOOLEAN, mkOk \in BOOLEAN : SetUp(t, superOk, mkOk)
    \/ \E f \in Files, lk \in BOOLEAN : BodyCreate(f, lk)
    \/ BodyRemoveDir
    \/ \E superOk \in BOOLEAN : TearDown(superOk)
    \/ Finish
    \/ Abort

Spec == Init /\ [][Next]_vars

\* ------------------------------------------------ AdanetTestCase: claims
SetUpRan == lastOp = "setUp"
TearDownRan == lastOp \in {"tearDown", "tearDown_again"}

\* C1: whenever setUp returns normally, the test subdirectory exists and is
\* empty, whatever was at that path before (nothing, an empty directory, or
\* stale content); a setUp that could not remove the old content does not
\* return normally.
C1_SetUpLeavesEmptyDir ==
    (SetUpRan /\ lastResult = "ok") =>
        /\ fs[testId] = EmptyDir
        /\ test_subdirectory = testId
        /\ pre.locked = {}

\* C1 witness: setUp returned normally over a directory that held stale
\* entries of an earlier run.
C1_Witness ==
    /\ SetUpRan
    /\ lastResult = "ok"
    /\ pre.exists
    /\ pre.entries # {}
    /\ unclean

C3_Original ==
    (SetUpRan /\ lastResult # "ok") => ~fs[testId].exists

\* C3 amended: a setUp that fails leaves no directory of its own making: a
\* subdirectory found after the failure was there before the call and holds
\* no entry it did not hold before; when the superclass setUp raised it is
\* untouched, and when makedirs raised it holds exactly the entries that
\* could not be removed (so none is left if all could be).
C3_FailedSetUpCreatesNothing ==
    (SetUpRan /\ lastResult # "ok") =>
        /\ fs[testId].exists => (pre.exists /\ fs[testId].entries \subseteq pre.entries)
        /\ lastResult = "super_raised" => fs[testId] = pre
        /\ lastResult = "makedirs_raised" =>
              /\ fs[testId].entries = pre.locked
              /\ fs[testId].exists = (pre.locked # {})

\* C3 witness: makedirs failed after the old directory and its stale content
\* had been removed, and nothing is left.
C3_Witness ==
    /\ SetUpRan
    /\ lastResult = "makedirs_raised"
    /\ pre.exists
    /\ pre.entries # {}
    /\ ~fs[testId].exists

\* C4: the removal in setUp and in tearDown does not raise when the test
\* subdirectory does not exist and leaves the path absent; a tearDown run a
\* second time, or after the body deleted the directory, whose superclass
\* tearDown returns, completes and changes nothing.
C4_MissingPathIgnored ==
    /\ (TearDownRan /\ ~pre.exists /\ lastResult # "super_raised") =>
           (lastResult = "ok" /\ fs[testId] = Absent)
    /\ (SetUpRan /\ ~pre.exists) =>
           /\ lastResult # "rmtree_raised"
           /\ lastResult # "ok" => fs[testId] = Absent

\* C4 witness: tearDown ran a second time on the same instance, found no
\* directory, and returned normally.
C4_Witness ==
    /\ lastOp = "tearDown_again"
    /\ lastResult = "ok"
    /\ ~pre.exists
    /\ ~fs[testId].exists
\* --------------------------------------------------- factories: claims
EnsembleCalled == call = "dummy_ensemble_spec"
EstimatorCalled == call = "dummy_estimator_spec"
ExportCalled == call \in {"_dummy_export_outputs", "dummy_ensemble_spec"}
\* the export outputs produced, and the logits and predictions they were
\* produced from, for either way of reaching _dummy_export_outputs
ExportResult == IF EnsembleCalled THEN result.export_outputs ELSE result
ExportLogits == IF EnsembleCalled THEN result.ensemble.logits ELSE args.logits
ExportPredictions == IF EnsembleCalled THEN result.predictions ELSE args.predictions
FourValidKeys == {CLASSIFICATION_CLASSES, CLASSIFICATION_SCORES, REGRESSION, PREDICTION}
TheValue(d) == (CHOOSE p \in d.items : TRUE)[2]

\* C5 as stated: for every export_output_key that is not one of the four
\* valid kinds, the result is the invalid stub, a one-entry mapping from the
\* key to the raw predictions.
C5_Original ==
    (ExportCalled /\ args.export_output_key \notin FourValidKeys) =>
        ExportResult = Dict({<<args.export_output_key, ExportPredictions>>})

\* C5 amended: the invalid stub, a one-entry mapping from the key to the raw
\* predictions, is the result exactly for export_output_key = INVALID; every
\* other key outside the four valid kinds (None included) yields None.
C5_InvalidStubOnlyForInvalid ==
    (ExportCalled /\ args.export_output_key \notin FourValidKeys) =>
        /\ args.export_output_key = INVALID =>
              ExportResult = Dict({<<INVALID, ExportPredictions>>})
        /\ args.export_output_key # INVALID => ExportResult = None

\* C5 witness: dummy_ensemble_spec called with the INVALID key and dictionary
\* predictions returned the stub holding that dictionary.
C5_Witness ==
    /\ EnsembleCalled
    /\ args.export_output_key = INVALID
    /\ args.dict_predictions
    /\ result.export_outputs = Dict({<<INVALID, result.predictions>>})

\* C6 as stated: the ensemble holds exactly num_subnetworks weighted
\* subnetworks for every integer num_subnetworks, 0 and negatives included.
C6_Original ==
    EnsembleCalled =>
        Len(result.ensemble.weighted_subnetworks) = args.num_subnetworks

\* C6 amended: the ensemble holds exactly max(num_subnetworks, 0) weighted
\* subnetworks, and every one carries the given name, iteration number 1 and
\* complexity 1.
C6_SubnetworkCount ==
    EnsembleCalled =>
        LET ws == result.ensemble.weighted_subnetworks
        IN  /\ Len(ws) = IF args.num_subnetworks > 0 THEN args.num_subnetworks ELSE 0
            /\ \A i \in 1..Len(ws) :
                  /\ ws[i].name = args.name
                  /\ ws[i].iteration_number = 1
                  /\ ws[i].subnetwork.complexity = 1

\* C6 witness: a call asking for the largest number of subnetworks got them.
C6_Witness ==
    /\ EnsembleCalled
    /\ args.num_subnetworks = MaxSubnetworks
    /\ Len(result.ensemble.weighted_subnetworks) = MaxSubnetworks
    /\ MaxSubnetworks > 1

\* C7: in both spec factories a given loss is returned as it is, and only a
\* loss of None is replaced by the tensor generated with seed random_seed;
\* in dummy_ensemble_spec a given adanet_loss is returned as a tensor of the
\* same value and a missing one is generated with seed 2 * random_seed.
C7_GivenLossKept ==
    /\ (EnsembleCalled \/ EstimatorCalled) =>
          /\ args.loss # None => result.loss = args.loss
          /\ args.loss = None =>
                result.loss = [op |-> "random_normal", shape |-> << >>,
                               seed |-> args.random_seed]
    /\ EnsembleCalled =>
          /\ args.adanet_loss # None =>
                /\ result.adanet_loss.op = "Const"
                /\ result.adanet_loss.value = args.adanet_loss.value
          /\ args.adanet_loss = None =>
                result.adanet_loss = [op |-> "random_normal", shape |-> << >>,
                                      seed |-> 2 * args.random_seed]

\* C7 witness: a call of dummy_ensemble_spec with loss 0.0 and adanet_loss
\* 0.0 returned that loss and a constant tensor of that adanet_loss.
C7_Witness ==
    /\ EnsembleCalled
    /\ args.loss = Float(0)
    /\ args.adanet_loss = Float(0)
    /\ result.loss = Float(0)
    /\ result.adanet_loss = Const(0)

\* C8: the result of _dummy_export_outputs is None or a mapping with exactly
\* one entry, keyed by export_output_key; it is None exactly when the key is
\* not one of the five ExportOutputKeys constants; the classification and
\* regression entries are built from logits, the prediction and invalid
\* entries from predictions.
C8_ExportOutputsShape ==
    ExportCalled =>
        LET r == ExportResult
            key == args.export_output_key
        IN  /\ (r = None) <=> (key \notin ExportOutputKeys)
            /\ r # None =>
                  /\ r.op = "dict"
                  /\ Cardinality(r.items) = 1
                  /\ Keys(r) = {key}
            /\ key = CLASSIFICATION_CLASSES =>
                  /\ TheValue(r).type = "ClassificationOutput"
                  /\ TheValue(r).classes = [op |-> "as_string", x |-> ExportLogits]
            /\ key = CLASSIFICATION_SCORES =>
                  /\ TheValue(r).type = "ClassificationOutput"
                  /\ TheValue(r).scores = ExportLogits
            /\ key = REGRESSION =>
                  /\ TheValue(r).type = "RegressionOutput"
                  /\ TheValue(r).value = ExportLogits
            /\ key = PREDICTION =>
                  /\ TheValue(r).type = "PredictOutput"
                  /\ TheValue(r).outputs = ExportPredictions
            /\ key = INVALID => TheValue(r) = ExportPredictions

\* C8 witness: a direct call with the regression key, and logits that differ
\* from the predictions, returned the one entry built from the logits.
C8_Witness ==
    /\ call = "_dummy_export_outputs"
    /\ args.export_output_key = REGRESSION
    /\ args.logits # args.predictions
    /\ result = Dict({<<REGRESSION, RegressionOutput(args.logits)>>})

\* C9: predictions is a dictionary with exactly the keys "logits" and
\* "classes" when dict_predictions is true and the logits tensor otherwise;
\* the ensemble's logits, the predictions' logits and the logits the export
\* outputs are built from are the one tensor of seed 3 * random_seed,
\* whatever loss, adanet_loss, bias and num_subnetworks are.
C9_OneLogitsTensor ==
    EnsembleCalled =>
        LET logits == [op |-> "random_normal", shape |-> << >>,
                       seed |-> 3 * args.random_seed]
            key == args.export_output_key
        IN  /\ result.ensemble.logits = logits
            /\ args.dict_predictions =>
                  /\ result.predictions.op = "dict"
                  /\ Keys(result.predictions) = {Str("logits"), Str("classes")}
                  /\ Cardinality(result.predictions.items) = 2
                  /\ Get(result.predictions, Str("logits")) = logits
            /\ ~args.dict_predictions => result.predictions = logits
            /\ key = CLASSIFICATION_CLASSES =>
                  TheValue(result.export_outputs).classes.x = logits
            /\ key = CLASSIFICATION_SCORES =>
                  TheValue(result.export_outputs).scores = logits
            /\ key = REGRESSION =>
                  TheValue(result.export_outputs).value = logits

\* C9 witness: a call with dictionary predictions, a given loss and
\* adanet_loss, a non-zero bias and no subnetworks, exporting scores.
C9_Witness ==
    /\ EnsembleCalled
    /\ args.dict_predictions
    /\ args.export_output_key = CLASSIFICATION_SCORES
    /\ args.loss # None
    /\ args.adanet_loss # None
    /\ args.bias # 0
    /\ args.num_subnetworks = 0
    /\ args.random_seed > 0
    /\ Get(result.predictions, Str("logits")) = result.ensemble.logits
====
